---- MODULE Spec2Model ----
(***************************************************************************)
(* A model of the retrieval-and-context-assembly core of rag_project_1:    *)
(* the context packer and the query orchestrator of scripts/query.py, the  *)
(* chunker of scripts/chunk.py, the vector store adapter of                *)
(* scripts/embeddings.py and the ingestion pipeline with its entry points  *)
(* (scripts/pipeline.py, scripts/rag_cli.py, ui/pages/upload_process.py).  *)
(*                                                                         *)
(* A text is a string over a three-letter alphabet: W (a piece that is a   *)
(* token of its own), D (a full stop; the encoder merges runs of up to     *)
(* three of them into one token, as a byte-pair encoder does with "...")   *)
(* and X (a character the encoder rejects, which sends count_tokens and    *)
(* truncate_text_to_tokens to their except branches).  Strings and token   *)
(* lists are kept run-length encoded, in normal form: a sequence of runs   *)
(* [v, n] with n > 0 and no two neighbouring runs of the same value, so    *)
(* that equal strings are equal values.                                    *)
(***************************************************************************)
EXTENDS Integers, Sequences, FiniteSets, TLC

VARIABLES
    \* ---- context packer (truncate_chunks_to_fit_context as a pure function)
    chunks,          \* the candidate list handed to the packer
    max_tokens_arg,  \* the max_tokens argument
    selected,        \* the returned list (selected_chunks)
    pack_pc,         \* "idle" | "ready" | "done"
    chunks_before,   \* the candidate list as it was when the last call was made
    pack_prev,       \* what the call before the last one returned
    pack_calls,      \* packing calls made on this engine so far
    \* ---- query orchestrator (RAGQueryEngine.query)
    index,           \* the points of the collection, scored against the question
    self_max_tokens, \* self.max_tokens
    self_max_context_tokens,   \* self.max_context_tokens
    q_pc,            \* position of query(): "idle", "Received", "Retrieving",
                     \* "Packing", "PromptBuilding", "Generating", "Completed",
                     \* "Failed"
    question,        \* argument of query()
    top_k,           \* argument of query(), None when omitted
    score_threshold, \* argument of query(), None when omitted
    search_args,     \* what search_similar was called with
    searched,        \* "no" | "returned" | "raised": how search_similar ended
    results,         \* what search_similar returned
    packed,          \* what retrieve_relevant_chunks returned
    prompt,          \* the prompt built by create_context_prompt
    llm_calls,       \* chat.completions.create calls made by this query
    llm_request,     \* the max_tokens sent with the last call
    llm_silent,      \* the generation service will never answer this call
    outcome,         \* "none" | "returned" | "raised"
    result,          \* the dict query() returned
    failed_at,       \* the step whose exception ended the query
    caught,          \* the exception the except clause of query() caught
    \* ---- chunker (LangChainChunker)
    ck_args,         \* the arguments the chunker was constructed with
    chunker,         \* the constructed chunker: self.chunk_size, self.chunk_overlap
    ck_input,        \* the documents (or the one text) handed to the chunker
    ck_source_name,  \* the source_name argument, NoName when omitted
    ck_call,         \* "chunk_documents" | "chunk_text"
    ck_chunks,       \* the returned list of chunks
    ck_pc,           \* "idle" | "ready" | "done"
    ck_prev,         \* what the call before the last one returned
    ck_calls,        \* chunking calls made on ck_input so far
    ck_instance,     \* which LangChainChunker object is in use: 1, 2, ...
    \* ---- ingestion (EmbeddingManager and RAGPipeline)
    store,           \* the vector store: whether the collection exists, its points
    store_before,    \* the store when the last call was made
    last_call,       \* the last call that works on the store and how it ended
    folder,          \* the directory process_folder is pointed at
    processed_files, \* self.processed_files
    failed_files,    \* self.failed_files
    files,           \* the local list of supported files of process_folder
    pl_i,            \* how many of them the loop has handled
    pl_calls,        \* the paths process_file was called with in this run
    pl_results,      \* what these calls returned
    pl_runs,         \* process_folder calls made on this pipeline
    pl_pc,           \* "idle" | "looping" | "summing" | "done"
    pl_outcome,      \* "none" | "returned" | "raised"
    summary,         \* what process_folder returned
    uuids,           \* how many ids uuid.uuid4() has handed out: 1, 2, ...
    ins_args,        \* the arguments of the last direct insert_chunks call
    ins_calls,       \* direct insert_chunks calls made so far
    command          \* the entry point that ran last, "none" before the first

pack_vars == <<chunks, max_tokens_arg, selected, pack_pc, chunks_before, pack_prev,
               pack_calls>>

query_vars == <<index, self_max_tokens, self_max_context_tokens, q_pc, question, top_k, score_threshold,
                search_args, searched, results, packed, prompt, llm_calls,
                llm_request, llm_silent, outcome, result, failed_at, caught>>

chunk_vars == <<ck_args, chunker, ck_input, ck_source_name, ck_call, ck_chunks, ck_pc,
                ck_prev, ck_calls, ck_instance>>

ingest_vars == <<store, store_before, last_call, folder, processed_files, failed_files,
                 files, pl_i, pl_calls, pl_results, pl_runs, pl_pc, pl_outcome, summary,
                 uuids, ins_args, ins_calls, command>>

vars == <<pack_vars, query_vars, chunk_vars, ingest_vars>>

-----------------------------------------------------------------------------
(* Run-length encoded sequences *)

Run(v, n) == [v |-> v, n |-> n]

Min(a, b) == IF a <= b THEN a ELSE b
Max(a, b) == IF a >= b THEN a ELSE b

RECURSIVE SumSeq(_)
SumSeq(s) == IF s = <<>> THEN 0 ELSE Head(s) + SumSeq(Tail(s))

\* number of elements
RLen(r) == SumSeq([i \in 1..Len(r) |-> r[i].n])

\* concatenation of two sequences in normal form; the two arguments are
\* bound as values first, so that each is evaluated once
RConcat(left, right) ==
    LET Join(a, b) ==
            IF a = <<>> THEN b
            ELSE IF b = <<>> THEN a
            ELSE IF a[Len(a)].v = b[1].v
                 THEN SubSeq(a, 1, Len(a) - 1)
                        \o <<Run(b[1].v, a[Len(a)].n + b[1].n)>>
                        \o Tail(b)
                 ELSE a \o b
    IN  CHOOSE r \in {Join(a, b) : a \in {left}, b \in {right}} : TRUE

RECURSIVE RFlatten(_)
RFlatten(ss) == IF ss = <<>> THEN <<>> ELSE RConcat(Head(ss), RFlatten(Tail(ss)))

\* the first k elements: r[:k]
RECURSIVE RPrefix(_, _)
RPrefix(r, k) ==
    IF k <= 0 \/ r = <<>> THEN <<>>
    ELSE IF r[1].n <= k THEN <<r[1]>> \o RPrefix(Tail(r), k - r[1].n)
    ELSE <<Run(r[1].v, k)>>

-----------------------------------------------------------------------------
(* Characters and texts *)

W == "w"
D == "."
X == "x"

Chars(c, n) == IF n > 0 THEN <<Run(c, n)>> ELSE <<>>

\* w pieces followed by d full stops
MkText(w, d) == RConcat(Chars(W, w), Chars(D, d))

Ellipsis == Chars(D, 3)

-----------------------------------------------------------------------------
(* The tokenizer behind self.encoding.  A token is [c, k]: k characters c. *)

Token(c, k) == [c |-> c, k |-> k]

\* the encoder rejects a text holding X
encodable(text) == \A i \in 1..Len(text) : text[i].v # X

\* the tokens of one run of equal characters: a W is a token of its own,
\* full stops are taken three at a time, longest match first
EncodeRun(r) ==
    IF r.v = D
    THEN RConcat(IF r.n \div 3 > 0 THEN <<Run(Token(D, 3), r.n \div 3)>> ELSE <<>>,
                 IF r.n % 3 > 0 THEN <<Run(Token(D, r.n % 3), 1)>> ELSE <<>>)
    ELSE <<Run(Token(r.v, 1), r.n)>>

\* encoding.encode
encode(text) == RFlatten([i \in 1..Len(text) |-> EncodeRun(text[i])])

\* encoding.decode
decode(tokens) ==
    RFlatten([i \in 1..Len(tokens) |-> Chars(tokens[i].v.c, tokens[i].v.k * tokens[i].n)])

count_tokens(text) ==
    IF encodable(text) THEN RLen(encode(text))
    ELSE RLen(text) \div 4

truncate_text_to_tokens(text, max_tokens) ==
    IF encodable(text)
    THEN LET tokens == encode(text) IN
         IF RLen(tokens) <= max_tokens THEN text
         ELSE LET truncated_text == decode(RPrefix(tokens, max_tokens)) IN
              IF truncated_text # text THEN RConcat(truncated_text, Ellipsis)
              ELSE truncated_text
    ELSE IF RLen(text) > max_tokens * 4
         THEN RConcat(RPrefix(text, max_tokens * 4), Ellipsis)
         ELSE text

-----------------------------------------------------------------------------
(* Hits are Python dicts: functions from key names to values *)

Hit(text, source, score) == [text |-> text, source |-> source, score |-> score]

is_truncated(chunk) == "truncated" \in DOMAIN chunk /\ chunk["truncated"]

\* chunk.copy() followed by the two item assignments
TruncatedCopy(chunk, new_text) ==
    [k \in DOMAIN chunk \cup {"text", "truncated"} |->
        IF k = "text" THEN new_text
        ELSE IF k = "truncated" THEN TRUE
        ELSE chunk[k]]

\* sorted(chunks, key=score, reverse=True): stable, so equal scores keep
\* their input order
RECURSIVE InsertByScore(_, _)
InsertByScore(c, s) ==
    IF s = <<>> THEN <<c>>
    ELSE IF Head(s)["score"] >= c["score"]
         THEN <<Head(s)>> \o InsertByScore(c, Tail(s))
         ELSE <<c>> \o s

\* mutation: the hits are packed in the order they came in
sorted_as_given(cs) == cs

\* mutation: the sort is ascending
RECURSIVE sorted_ascending(_)
sorted_ascending(cs) ==
    IF cs = <<>> THEN <<>>
    ELSE LET n == Len(cs)
             rest == sorted_ascending(SubSeq(cs, 1, n - 1))
             below == SelectSeq(rest, LAMBDA c : c["score"] <= cs[n]["score"])
             above == SelectSeq(rest, LAMBDA c : c["score"] > cs[n]["score"])
         IN  below \o <<cs[n]>> \o above

RECURSIVE sorted_by_score(_)
sorted_by_score(cs) ==
    IF cs = <<>> THEN <<>>
    ELSE LET n == Len(cs)
         IN  InsertByScore(cs[n], sorted_by_score(SubSeq(cs, 1, n - 1)))

TRUNCATE_MIN_CHUNK_TOKENS == 100
TRUNCATE_MIN_REMAINING == 50

\* mutation: a hit that does not fit is skipped and the loop goes on
RECURSIVE PackLoopNoBreak(_, _, _, _)
PackLoopNoBreak(sorted_chunks, i, current_tokens, max_tokens) ==
    IF i > Len(sorted_chunks) THEN <<>>
    ELSE LET chunk == sorted_chunks[i]
             chunk_tokens == count_tokens(chunk["text"])
         IN  IF current_tokens + chunk_tokens <= max_tokens
             THEN <<chunk>> \o PackLoopNoBreak(sorted_chunks, i + 1,
                                               current_tokens + chunk_tokens, max_tokens)
             ELSE PackLoopNoBreak(sorted_chunks, i + 1, current_tokens, max_tokens)

\* mutation: after a truncation the loop goes on, the running total as it was
RECURSIVE PackLoopGoesOnAfterTruncation(_, _, _, _)
PackLoopGoesOnAfterTruncation(sorted_chunks, i, current_tokens, max_tokens) ==
    IF i > Len(sorted_chunks) THEN <<>>
    ELSE LET chunk == sorted_chunks[i]
             chunk_text == chunk["text"]
             chunk_tokens == count_tokens(chunk_text)
         IN  IF current_tokens + chunk_tokens <= max_tokens
             THEN <<chunk>> \o PackLoopGoesOnAfterTruncation(sorted_chunks, i + 1,
                                    current_tokens + chunk_tokens, max_tokens)
             ELSE IF chunk_tokens > TRUNCATE_MIN_CHUNK_TOKENS
                  THEN LET remaining_tokens == max_tokens - current_tokens IN
                       IF remaining_tokens > TRUNCATE_MIN_REMAINING
                       THEN <<TruncatedCopy(chunk,
                                truncate_text_to_tokens(chunk_text, remaining_tokens))>>
                            \o PackLoopGoesOnAfterTruncation(sorted_chunks, i + 1,
                                    current_tokens, max_tokens)
                       ELSE <<>>
                  ELSE <<>>

\* mutation: a large hit is truncated whatever budget remains
RECURSIVE PackLoopNoRemainingCheck(_, _, _, _)
PackLoopNoRemainingCheck(sorted_chunks, i, current_tokens, max_tokens) ==
    IF i > Len(sorted_chunks) THEN <<>>
    ELSE LET chunk == sorted_chunks[i]
             chunk_text == chunk["text"]
             chunk_tokens == count_tokens(chunk_text)
         IN  IF current_tokens + chunk_tokens <= max_tokens
             THEN <<chunk>> \o PackLoopNoRemainingCheck(sorted_chunks, i + 1,
                                    current_tokens + chunk_tokens, max_tokens)
             ELSE IF chunk_tokens > TRUNCATE_MIN_CHUNK_TOKENS
                  THEN <<TruncatedCopy(chunk,
                           truncate_text_to_tokens(chunk_text, max_tokens - current_tokens))>>
                  ELSE <<>>

\* the for loop of truncate_chunks_to_fit_context from position i on, with
\* current_tokens tokens already accepted
RECURSIVE PackLoop(_, _, _, _)
PackLoop(sorted_chunks, i, current_tokens, max_tokens) ==
    IF i > Len(sorted_chunks) THEN <<>>
    ELSE LET chunk == sorted_chunks[i]
             chunk_text == chunk["text"]
             chunk_tokens == count_tokens(chunk_text)
         IN  IF current_tokens + chunk_tokens <= max_tokens
             THEN <<chunk>> \o PackLoop(sorted_chunks, i + 1,
                                        current_tokens + chunk_tokens, max_tokens)
             ELSE IF chunk_tokens > TRUNCATE_MIN_CHUNK_TOKENS
                  THEN LET remaining_tokens == max_tokens - current_tokens IN
                       IF remaining_tokens > TRUNCATE_MIN_REMAINING
                       THEN <<TruncatedCopy(chunk,
                                truncate_text_to_tokens(chunk_text, remaining_tokens))>>
                       ELSE <<>>
                  ELSE <<>>

truncate_chunks_to_fit_context(cs, max_tokens) ==
    IF cs = <<>> THEN <<>>
    ELSE PackLoop(sorted_by_score(cs), 1, 0, max_tokens)

\* mutation: the text and the flag are assigned on the hit itself, not on a
\* copy of it
InputAfterPackInPlace(cs, max_tokens) ==
    LET out == truncate_chunks_to_fit_context(cs, max_tokens)
        n == Len(out)
    IN  IF n > 0 /\ is_truncated(out[n])
        THEN LET orig == sorted_by_score(cs)[n]
                 at == CHOOSE i \in 1..Len(cs) :
                           /\ cs[i] = orig
                           /\ \A j \in 1..(i - 1) : cs[j] # orig
             IN  [cs EXCEPT ![at] = out[n]]
        ELSE cs

\* the candidate list as the call leaves it: sorted() builds a new list and
\* the only item assignments are made on chunk.copy()
InputAfterPack(cs, max_tokens) == cs

-----------------------------------------------------------------------------
(* Configuration (scripts/config.py) *)

\* Python's None where a number is expected
None == 0 - 1

NoArgs == [top_k |-> None, score_threshold |-> None]

config_top_k == 5
config_similarity_threshold == 30      \* scores are in hundredths: 0.3
config_max_tokens == 1000
config_max_context_tokens == 3000
config_max_total_tokens == 4096

-----------------------------------------------------------------------------
(* The vector index adapter as query() sees it *)

RECURSIVE AboveThreshold(_, _)
AboveThreshold(hits, threshold) ==
    IF hits = <<>> THEN <<>>
    ELSE IF Head(hits)["score"] >= threshold
         THEN <<Head(hits)>> \o AboveThreshold(Tail(hits), threshold)
         ELSE AboveThreshold(Tail(hits), threshold)

\* search_similar when nothing fails: the top_k nearest points whose score
\* reaches score_threshold, best first
search_similar(points, k, threshold) ==
    LET k_eff == IF k = None THEN config_top_k ELSE k
        t_eff == IF threshold = None THEN config_similarity_threshold ELSE threshold
        hits == AboveThreshold(sorted_by_score(points), t_eff)
    IN  SubSeq(hits, 1, Min(k_eff, Len(hits)))

-----------------------------------------------------------------------------
(* Exceptions: str(e) is a sequence of words *)

Exception(type, words) == [type |-> type, words |-> words]

\* "tokens" in word.lower()
HasTokens(word) == word \in {"tokens", "Tokens", "max_tokens"}

\* "context length" in the lower-cased message, or "tokens" in it
MentionsContext(words) ==
    \/ \E i \in 1..(Len(words) - 1) :
           /\ words[i] \in {"context", "Context"}
           /\ words[i + 1] \in {"length", "Length"}
    \/ \E i \in 1..Len(words) : HasTokens(words[i])

PromptTooLong ==
    Exception("ValueError",
              <<"Prompt", "too", "long", "tokens", "Available", "tokens",
                "for", "response">>)

ContextTooLongMsg ==
    <<"Context", "too", "long", "for", "the", "model.", "The", "retrieved",
      "documents", "exceed", "the", "model's", "context", "window.">>

-----------------------------------------------------------------------------
(* RAGQueryEngine *)

NoInfoAnswer(q) == [template |-> "no relevant information", arg |-> q]
ErrorAnswer(error_msg) == [template |-> "An error occurred: ", arg |-> error_msg]
LLMAnswer(content) == [template |-> "", arg |-> content]

\* retrieve_relevant_chunks passes top_k and score_threshold on like this
initial_top_k(k) == Min(IF k = None \/ k = 0 THEN config_top_k ELSE k, 5)
passed_threshold(t) == IF t = None \/ t = 0 THEN config_similarity_threshold ELSE t

\* the literal parts of the prompt template, as token counts
PromptHeadTokens == 27
PromptQuestionTokens == 4
PromptTailTokens == 55
SourceHeaderTokens == 14
TruncationNoteTokens == 3
SourceJoinTokens == 1

Literal(n) == Chars(W, n)

\* one entry of context_parts
ContextPart(chunk) ==
    RFlatten(<<Literal(SourceHeaderTokens),
               IF is_truncated(chunk) THEN Literal(TruncationNoteTokens) ELSE <<>>,
               Literal(1),
               chunk["text"]>>)

\* "\n\n".join(context_parts)
RECURSIVE JoinParts(_)
JoinParts(cs) ==
    IF cs = <<>> THEN <<>>
    ELSE IF Len(cs) = 1 THEN ContextPart(cs[1])
    ELSE RFlatten(<<ContextPart(cs[1]), Literal(SourceJoinTokens), JoinParts(Tail(cs))>>)

NoInfoPromptTokens == 50

create_context_prompt(cs, q) ==
    IF cs = <<>> THEN RFlatten(<<Literal(NoInfoPromptTokens), q>>)
    ELSE
    RFlatten(<<Literal(PromptHeadTokens), JoinParts(cs),
               Literal(PromptQuestionTokens), q, Literal(PromptTailTokens)>>)

SAFETY_RESERVE == 100
MIN_RESPONSE_TOKENS == 100

\* mutation: the configured max_tokens is not applied
adjusted_to_window_only(p, m) == config_max_total_tokens - count_tokens(p) - SAFETY_RESERVE

\* mutation: the safety reserve is not subtracted
adjusted_without_reserve(p, m) == Min(m, config_max_total_tokens - count_tokens(p))

\* ask_llm up to the call: the max_tokens to send, or the ValueError
available_tokens(p) == config_max_total_tokens - count_tokens(p)

adjusted_max_tokens(p, m) ==
    Min(m, available_tokens(p) - SAFETY_RESERVE)

budget_ok(p, m) ==
    ~(adjusted_max_tokens(p, m) < MIN_RESPONSE_TOKENS)

\* the early return of query() when retrieve_relevant_chunks returned []
NoChunksResult(q) ==
    [question |-> q, answer |-> NoInfoAnswer(q), sources |-> <<>>,
     chunks_used |-> 0, chunks |-> <<>>]

CountTruncated(cs) == Cardinality({i \in 1..Len(cs) : is_truncated(cs[i])})

\* mutation: 'sources' is deduplicated, first occurrences kept
SuccessResultDistinctSources(q, answer, cs, p, max_context_tokens) ==
    LET RECURSIVE Distinct(_, _)
        Distinct(i, seen) ==
            IF i > Len(cs) THEN <<>>
            ELSE IF cs[i]["source"] \in seen THEN Distinct(i + 1, seen)
            ELSE <<cs[i]["source"]>> \o Distinct(i + 1, seen \cup {cs[i]["source"]})
    IN  [question |-> q, answer |-> LLMAnswer(answer),
         sources |-> Distinct(1, {}),
         chunks_used |-> Len(cs), chunks |-> cs,
         prompt_tokens |-> count_tokens(p),
         context_management |->
            [max_context_tokens |-> max_context_tokens,
             max_total_tokens |-> config_max_total_tokens,
             truncated_chunks |-> CountTruncated(cs)]]

\* the result dict of a completed query
SuccessResult(q, answer, cs, p, max_context_tokens) ==
    [question |-> q, answer |-> LLMAnswer(answer),
     sources |-> [i \in 1..Len(cs) |-> cs[i]["source"]],
     chunks_used |-> Len(cs), chunks |-> cs,
     prompt_tokens |-> count_tokens(p),
     context_management |->
        [max_context_tokens |-> max_context_tokens,
         max_total_tokens |-> config_max_total_tokens,
         truncated_chunks |-> CountTruncated(cs)]]

\* mutation: the clause catches ValueError only
query_except_value_error(q, e) ==
    IF e.type = "ValueError"
    THEN [outcome |-> "returned",
          result |-> [question |-> q, answer |-> ErrorAnswer(e.words),
                      error |-> e.words, sources |-> <<>>, chunks_used |-> 0]]
    ELSE [outcome |-> "raised", result |-> [question |-> q]]

\* mutation: only the ValueError of the budget check gets the budget message
query_except_budget_only(q, e) ==
    LET error_msg == IF e.type = "ValueError" /\ MentionsContext(e.words)
                     THEN ContextTooLongMsg ELSE e.words
    IN  [outcome |-> "returned",
         result |-> [question |-> q, answer |-> ErrorAnswer(error_msg),
                     error |-> error_msg, sources |-> <<>>, chunks_used |-> 0]]

\* the except clause of query(): every Exception becomes a result
query_except(q, e) ==
    LET error_msg == IF MentionsContext(e.words) THEN ContextTooLongMsg ELSE e.words
    IN  [outcome |-> "returned",
         result |-> [question |-> q, answer |-> ErrorAnswer(error_msg),
                     error |-> error_msg, sources |-> <<>>, chunks_used |-> 0]]

-----------------------------------------------------------------------------
(* Texts of the chunker.  Here a text is a run-length encoded sequence of  *)
(* words separated by single white-space characters; a word is a short     *)
(* sequence of characters and the empty word stands for one more           *)
(* white-space character between its neighbours.                           *)

config_chunk_size == 300
config_chunk_overlap == 50

STAR == "*"      \* a character outside the set clean_text keeps

Words(word, n) == IF n > 0 THEN <<Run(word, n)>> ELSE <<>>

\* text.split(): the non-empty words
split(text) == RFlatten([i \in 1..Len(text) |->
                            IF text[i].v = <<>> THEN <<>> ELSE <<text[i]>>])

\* text.strip()
RECURSIVE lstrip(_)
lstrip(text) ==
    IF text # <<>> /\ text[1].v = <<>> THEN lstrip(Tail(text)) ELSE text

RECURSIVE rstrip(_)
rstrip(text) ==
    IF text # <<>> /\ text[Len(text)].v = <<>>
    THEN rstrip(SubSeq(text, 1, Len(text) - 1)) ELSE text

strip(text) == lstrip(rstrip(text))

\* re.sub(r'\s+', ' ', text): runs of white space become one space, so no
\* empty word is left between two words and at most one at either end
collapse_whitespace(text) ==
    LET lead == IF text # <<>> /\ text[1].v = <<>> THEN Words(<<>>, 1) ELSE <<>>
        trail == IF Len(text) > 1 /\ text[Len(text)].v = <<>> THEN Words(<<>>, 1) ELSE <<>>
    IN  RFlatten(<<lead, split(text), trail>>)

\* re.sub(r'[^\w\s\.\,\!\?\;\:\-\(\)]', '', text) on one word
KeepAllowed(word) == SelectSeq(word, LAMBDA c : c # STAR)

\* every word filtered, the result again in normal form
remove_special(text) ==
    RFlatten([i \in 1..Len(text) |-> <<Run(KeepAllowed(text[i].v), text[i].n)>>])

clean_text(text) == strip(remove_special(collapse_whitespace(text)))

\* the length_function handed to the splitter
word_length_function(text) == RLen(split(text))

-----------------------------------------------------------------------------
(* LangChainChunker *)

NoName == ""

\* mutation: the splitter is built without the overlap
LangChainChunkerWithoutOverlap(chunk_size, chunk_overlap) ==
    [chunk_size |-> IF chunk_size = None \/ chunk_size = 0
                    THEN config_chunk_size ELSE chunk_size,
     chunk_overlap |-> 0]

\* __init__: the parameters the splitter is built with
LangChainChunker(chunk_size, chunk_overlap) ==
    [chunk_size |-> IF chunk_size = None \/ chunk_size = 0
                    THEN config_chunk_size ELSE chunk_size,
     chunk_overlap |-> IF chunk_overlap = None \/ chunk_overlap = 0
                       THEN config_chunk_overlap ELSE chunk_overlap]

\* A document's page_content is kept as the sequence of segments the
\* separators cut it into; Document(segments, page) is one loaded page.
Document(segments, page) ==
    [page_content |-> segments, metadata |-> [page |-> page, source |-> "file.txt"]]


\* the splitter's merge: segments d.. of segs are still to come, current is
\* the run of segment numbers in the open chunk, total its word count and
\* docs the closed chunks, each the sequence of its segment numbers
RECURSIVE PopOverlap(_, _, _, _, _)
PopOverlap(segs, current, total, next_len, self) ==
    IF total > self.chunk_overlap
       \/ (total + next_len > self.chunk_size /\ total > 0)
    THEN PopOverlap(segs, Tail(current),
                    total - word_length_function(segs[Head(current)]),
                    next_len, self)
    ELSE [current |-> current, total |-> total]

RECURSIVE MergeSplits(_, _, _, _, _, _)
MergeSplits(segs, d, current, total, docs, self) ==
    IF d > Len(segs)
    THEN IF current # <<>> THEN Append(docs, current) ELSE docs
    ELSE LET len == word_length_function(segs[d]) IN
         IF total + len > self.chunk_size /\ current # <<>>
         THEN LET kept == PopOverlap(segs, current, total, len, self)
              IN  MergeSplits(segs, d + 1, Append(kept.current, d),
                              kept.total + len, Append(docs, current), self)
         ELSE MergeSplits(segs, d + 1, Append(current, d), total + len, docs, self)

\* splitter.split_text on one document: the chunks as records of the joined,
\* stripped text and the segment numbers it was joined from; a chunk whose
\* text is empty is not produced
SplitDocument(doc, self) ==
    LET segs == doc.page_content
        parts == MergeSplits(segs, 1, <<>>, 0, <<>>, self)
        joined == [j \in 1..Len(parts) |->
                     [page_content |->
                          strip(RFlatten([k \in 1..Len(parts[j]) |-> segs[parts[j][k]]])),
                      metadata |-> doc.metadata,
                      parts |-> parts[j]]]
    IN  SelectSeq(joined, LAMBDA c : c.page_content # <<>>)

\* splitter.split_documents: every document is split on its own
RECURSIVE split_documents(_, _)
split_documents(documents, self) ==
    IF documents = <<>> THEN <<>>
    ELSE SplitDocument(Head(documents), self) \o split_documents(Tail(documents), self)

MIN_CHUNK_WORDS == 10

\* the loop body of chunk_documents for the i-th chunk (i counted from 0)
WithChunkMetadata(chunk, i, source_name) ==
    LET content == clean_text(chunk.page_content) IN
    [page_content |-> content,
     metadata |-> [page |-> chunk.metadata.page,
                   source |-> IF source_name # NoName THEN source_name
                              ELSE chunk.metadata.source,
                   chunk_id |-> i,
                   chunk_size |-> word_length_function(content)],
     parts |-> chunk.parts]

\* mutation: the short-chunk filter counts the words before cleaning
chunk_documents_filter_raw(self, documents, source_name) ==
    IF documents = <<>> THEN <<>>
    ELSE LET cs == split_documents(documents, self)
             kept == SelectSeq([i \in 1..Len(cs) |-> [c |-> cs[i], i |-> i - 1]],
                               LAMBDA e : word_length_function(e.c.page_content)
                                             >= MIN_CHUNK_WORDS)
         IN  [j \in 1..Len(kept) |-> WithChunkMetadata(kept[j].c, kept[j].i, source_name)]

chunk_documents(self, documents, source_name) ==
    IF documents = <<>> THEN <<>>
    ELSE LET cs == split_documents(documents, self)
             annotated == [i \in 1..Len(cs) |-> WithChunkMetadata(cs[i], i - 1, source_name)]
         IN  SelectSeq(annotated,
                       LAMBDA c : word_length_function(c.page_content) >= MIN_CHUNK_WORDS)

\* chunk_text: text is one document's segments
chunk_text(self, text, source_name) ==
    IF strip(RFlatten(text)) = <<>> THEN <<>>
    ELSE LET cleaned == [i \in 1..Len(text) |-> clean_text(text[i])]
         IN  chunk_documents(self, <<Document(cleaned, 1)>>, source_name)

-----------------------------------------------------------------------------
(* The chunker applied to bounded inputs *)

MaxSegments == 3
MaxCalls == 2

S8 == Words(<<"a">>, 8)
S40 == Words(<<"b">>, 40)
S60 == Words(<<"c">>, 60)
S250 == Words(<<"d">>, 250)
S295 == Words(<<"e">>, 295)
\* 14 words, 5 of them made of characters clean_text removes
SX == RFlatten(<<Words(<<"g">>, 6), Words(<<STAR>>, 5), Words(<<"g", STAR>>, 3)>>)

SegmentPool == {S8, S40, S60, S250, S295, SX}

SegmentLists == UNION {[1..n -> SegmentPool] : n \in 0..MaxSegments}

\* the lists of loaded documents: one document of up to MaxSegments
\* segments, or two pages of one segment each
DocumentLists ==
    {<<>>}
    \cup {<<Document(segs, 1)>> : segs \in SegmentLists}
    \cup {<<Document(<<s1>>, 1), Document(<<s2>>, 2)>> : s1 \in SegmentPool, s2 \in SegmentPool}

ChunkSizeArgs == {None, 100}
ChunkOverlapArgs == {None, 0, config_chunk_overlap}
SourceNames == {NoName, "report.pdf"}

ChunkIdle ==
    /\ ck_args = [chunk_size |-> None, chunk_overlap |-> None]
    /\ chunker = LangChainChunker(None, None)
    /\ ck_input = <<>>
    /\ ck_source_name = NoName
    /\ ck_call = "none"
    /\ ck_chunks = <<>>
    /\ ck_pc = "idle"
    /\ ck_prev = <<>>
    /\ ck_calls = 0
    /\ ck_instance = 1

\* a chunker is constructed; the caller holds documents for chunk_documents
\* or one text for chunk_text
ChunkInit ==
    /\ \E cs \in ChunkSizeArgs, ov \in ChunkOverlapArgs :
          /\ ck_args = [chunk_size |-> cs, chunk_overlap |-> ov]
          /\ chunker = LangChainChunker(cs, ov)
    /\ ck_call \in {"chunk_documents", "chunk_text"}
    /\ ck_input \in DocumentLists
    /\ ck_call = "chunk_text" => Len(ck_input) = 1
    /\ ck_source_name \in SourceNames
    /\ ck_chunks = <<>>
    /\ ck_pc = "ready"
    /\ ck_prev = <<>>
    /\ ck_calls = 0
    /\ ck_instance = 1

\* one call of chunk_documents; the method assigns no attribute of self and
\* works on the Document objects the splitter created
ChunkDocuments ==
    /\ ck_pc \in {"ready", "done"}
    /\ ck_calls < MaxCalls
    /\ ck_call = "chunk_documents"
    /\ ck_chunks' = chunk_documents(chunker, ck_input, ck_source_name)
    /\ ck_prev' = ck_chunks
    /\ ck_calls' = ck_calls + 1
    /\ ck_pc' = "done"
    /\ UNCHANGED <<ck_args, chunker, ck_input, ck_source_name, ck_call, ck_instance>>

\* mutation: the chunker keeps a running chunk counter between calls
ChunkTextRunningIds ==
    /\ ck_pc \in {"ready", "done"}
    /\ ck_calls < MaxCalls
    /\ ck_call = "chunk_text"
    /\ LET cs == chunk_text(chunker, ck_input[1].page_content, ck_source_name)
       IN  ck_chunks' = [j \in 1..Len(cs) |->
                            [cs[j] EXCEPT !.metadata.chunk_id = @ + ck_calls]]
    /\ ck_prev' = ck_chunks
    /\ ck_calls' = ck_calls + 1
    /\ ck_pc' = "done"
    /\ UNCHANGED <<ck_args, chunker, ck_input, ck_source_name, ck_call, ck_instance>>

\* one call of chunk_text
ChunkText ==
    /\ ck_pc \in {"ready", "done"}
    /\ ck_calls < MaxCalls
    /\ ck_call = "chunk_text"
    /\ ck_chunks' = chunk_text(chunker, ck_input[1].page_content, ck_source_name)
    /\ ck_prev' = ck_chunks
    /\ ck_calls' = ck_calls + 1
    /\ ck_pc' = "done"
    /\ UNCHANGED <<ck_args, chunker, ck_input, ck_source_name, ck_call, ck_instance>>

\* the caller constructs another chunker with the same arguments and uses it
\* from now on
NewChunker ==
    /\ ck_pc = "done"
    /\ ck_instance < MaxCalls
    /\ chunker' = LangChainChunker(ck_args.chunk_size, ck_args.chunk_overlap)
    /\ ck_instance' = ck_instance + 1
    /\ UNCHANGED <<ck_args, ck_input, ck_source_name, ck_call, ck_chunks, ck_pc,
                   ck_prev, ck_calls>>

-----------------------------------------------------------------------------
(* The vector store behind EmbeddingManager: one collection, which exists  *)
(* or not, and its points in insertion order.  A point is an id and a      *)
(* payload; the ids insert_chunks makes are fresh uuid4 values.            *)

Store(exists, points) == [exists |-> exists, points |-> points]

NoCollection == Store(FALSE, <<>>)

NoError == [type |-> "", words |-> <<>>]

\* client.recreate_collection: the collection is dropped if it is there and
\* created empty
recreate_collection(st) == Store(TRUE, <<>>)

\* mutation: the collection is recreated whether or not it exists
init_collection_always_recreates(st, recreate) == recreate_collection(st)

\* init_collection when the client does not fail
init_collection(st, recreate) ==
    LET collection_exists == st.exists IN
    IF recreate \/ ~collection_exists THEN recreate_collection(st) ELSE st

\* the payload of the i-th chunk (i counted from 0)
PointPayload(chunk, source_file, i) ==
    [text |-> chunk, source |-> source_file, chunk_index |-> i,
     chunk_length |-> word_length_function(chunk)]

CollectionNotFound ==
    Exception("UnexpectedResponse", <<"Not", "found:", "Collection", "doesn't", "exist">>)

\* PointStruct(id=..., vector=..., payload=...); the vector is left out
PointStruct(id, payload) == [id |-> id, payload |-> payload]

ENCODE_BATCH_SIZE == 50
UPSERT_BATCH_SIZE == 100

\* batch_process(items, batch_size): the slices items[i:i + batch_size] for
\* i = 0, batch_size, 2 * batch_size, ...
batch_process(items, batch_size) ==
    [k \in 1..((Len(items) + batch_size - 1) \div batch_size) |->
        SubSeq(items, (k - 1) * batch_size + 1, Min(k * batch_size, Len(items)))]

\* client.upsert(points=batch): a point whose id is in the collection
\* replaces the point of that id, any other is a new point; of two points of
\* the batch with one id the later one stays
upsert(points, batch) ==
    LET Has(ps, id) == \E i \in 1..Len(ps) : ps[i].id = id
        Last(id) == batch[CHOOSE i \in 1..Len(batch) :
                              /\ batch[i].id = id
                              /\ \A j \in (i + 1)..Len(batch) : batch[j].id # id]
        kept == [i \in 1..Len(points) |->
                    IF Has(batch, points[i].id) THEN Last(points[i].id) ELSE points[i]]
        first == SelectSeq([i \in 1..Len(batch) |-> i],
                           LAMBDA i : /\ ~Has(points, batch[i].id)
                                      /\ \A j \in 1..(i - 1) : batch[j].id # batch[i].id)
    IN  kept \o [k \in 1..Len(first) |-> Last(batch[first[k]].id)]

\* the upsert loop from batch k on
RECURSIVE UpsertBatches(_, _, _, _, _)
UpsertBatches(st, batches, k, failure, fail_at) ==
    IF k > Len(batches) THEN [raised |-> FALSE, error |-> NoError, store |-> st]
    ELSE IF ~st.exists THEN [raised |-> TRUE, error |-> CollectionNotFound, store |-> st]
    ELSE IF failure # NoError /\ fail_at = k
         THEN [raised |-> TRUE, error |-> failure, store |-> st]
    ELSE UpsertBatches(Store(TRUE, upsert(st.points, batches[k])), batches, k + 1,
                       failure, fail_at)

\* mutation: the id of a point is made from its index, so the same chunk of
\* a source gets the same id again
insert_chunks_derived_ids(st, chunk_list, source_file, failure, fail_at, issued) ==
    IF chunk_list = <<>>
    THEN [raised |-> FALSE, error |-> NoError, store |-> st, issued |-> issued]
    ELSE LET points == [i \in 1..Len(chunk_list) |->
                          PointStruct(0 - i,
                                      PointPayload(chunk_list[i], source_file, i - 1))]
             done == UpsertBatches(st, batch_process(points, UPSERT_BATCH_SIZE), 1,
                                   failure, fail_at)
         IN  [raised |-> done.raised, error |-> done.error, store |-> done.store,
              issued |-> issued]

\* insert_chunks(chunks, source_file).  failure is the exception the
\* embedding model or the client raises, NoError when they work; it strikes
\* in an encode call when fail_at is 0 and in the fail_at-th upsert call
\* otherwise.  issued is the number of ids uuid4 has handed out.
insert_chunks(st, chunk_list, source_file, failure, fail_at, issued) ==
    IF chunk_list = <<>>
    THEN [raised |-> FALSE, error |-> NoError, store |-> st, issued |-> issued]
    ELSE IF failure # NoError /\ fail_at = 0
    THEN [raised |-> TRUE, error |-> failure, store |-> st, issued |-> issued]
    ELSE LET encoded == batch_process(chunk_list, ENCODE_BATCH_SIZE)
             vectors == SumSeq([k \in 1..Len(encoded) |-> Len(encoded[k])])
             n == Min(Len(chunk_list), vectors)
             points == [i \in 1..n |->
                          PointStruct(issued + i,
                                      PointPayload(chunk_list[i], source_file, i - 1))]
             done == UpsertBatches(st, batch_process(points, UPSERT_BATCH_SIZE), 1,
                                   failure, fail_at)
         IN  [raised |-> done.raised, error |-> done.error, store |-> done.store,
              issued |-> issued + n]

-----------------------------------------------------------------------------
(* RAGPipeline *)

\* a directory entry: its name and suffix, whether it is a regular file,
\* whether the extractor can read it, its text and its size in bytes
Entry(name, suffix, isfile, readable, content, size) ==
    [name |-> name, suffix |-> suffix, isfile |-> isfile, readable |-> readable,
     content |-> content, size |-> size]

config_supported_extensions == {".pdf", ".txt", ".png", ".jpg", ".jpeg", ".xml", ".docx"}

\* Path(file_path).suffix.lower()
get_file_extension(entry) == IF entry.suffix = ".PDF" THEN ".pdf" ELSE entry.suffix

is_supported_file(entry) == get_file_extension(entry) \in config_supported_extensions

\* os.path.basename(file_path)
basename(entry) == entry.name

\* len(text) in characters: the words and one white-space character between
\* two neighbours
RECURSIVE CharCount(_)
CharCount(text) ==
    IF text = <<>> THEN 0
    ELSE text[1].n * (Len(text[1].v) + 1) + CharCount(Tail(text))

len(text) == IF text = <<>> THEN 0 ELSE CharCount(text) - 1

ExtractionError == Exception("Exception", <<"cannot", "open", "broken", "document">>)

\* extract_text on a file that exists and is supported
extract_text(entry) ==
    IF entry.readable THEN [raised |-> FALSE, error |-> NoError, text |-> entry.content]
    ELSE [raised |-> TRUE, error |-> ExtractionError, text |-> <<>>]

\* process_file: chunked is what chunk_text did with the text, failure what
\* the embedding model or the client does during insert_chunks
process_file(processed, failed, entry, chunked, failure, fail_at, issued, st) ==
    LET file_path == entry.name
        extracted == extract_text(entry)
        Caught(e) ==
            LET error_result == [status |-> "error", file |-> file_path, error |-> e.words]
            IN  [result |-> error_result, processed_files |-> processed,
                 failed_files |-> Append(failed, error_result), store |-> st,
                 issued |-> issued]
        Early(status) ==
            [result |-> [status |-> status, file |-> file_path],
             processed_files |-> processed, failed_files |-> failed, store |-> st,
             issued |-> issued]
    IN  IF extracted.raised THEN Caught(extracted.error)
        ELSE IF strip(extracted.text) = <<>> THEN Early("no_text")
        ELSE IF chunked.raised THEN Caught(chunked.error)
        ELSE IF chunked.chunks = <<>> THEN Early("no_chunks")
        ELSE LET ins == insert_chunks(st, chunked.chunks, basename(entry), failure,
                                      fail_at, issued)
             IN
             IF ins.raised
             THEN [Caught(ins.error) EXCEPT !.store = ins.store, !.issued = ins.issued]
             ELSE LET success == [status |-> "success", file |-> file_path,
                                  text_length |-> len(extracted.text),
                                  chunks_count |-> Len(chunked.chunks),
                                  file_size |-> entry.size]
                  IN  [result |-> success, processed_files |-> Append(processed, success),
                       failed_files |-> failed, store |-> ins.store,
                       issued |-> ins.issued]

\* the supported regular files of the directory, in os.listdir order
supported_files(dir) ==
    SelectSeq(dir.entries, LAMBDA e : e.isfile /\ is_supported_file(e))

\* the summary dict of process_folder; success_rate is kept in percent
folder_summary(fs, processed, failed) ==
    [total_files |-> Len(fs),
     processed_files |-> Len(processed),
     failed_files |-> Len(failed),
     success_rate |-> (Len(processed) * 100) \div Len(fs),
     processed |-> processed,
     failed |-> failed]

NoFilesResult == [status |-> "no_files", folder |-> "data"]

NoSummary == [status |-> "none"]

NoCall == [op |-> "none", recreate |-> FALSE, outcome |-> "none"]

NoInsert == [chunks |-> <<>>, source_file |-> ""]

-----------------------------------------------------------------------------
(* Ingestion on bounded inputs *)

MaxFiles == 2
MaxRuns == 2

Chunk1 == Words(<<"a">>, 40)
Chunk2 == Words(<<"b">>, 12)

Body == Words(<<"a">>, 52)
Blank == Words(<<>>, 2)

EntryPool ==
    {Entry("a.pdf", ".pdf", TRUE, TRUE, Body, 2048),
     Entry("b.txt", ".txt", TRUE, TRUE, Blank, 2),
     Entry("c.docx", ".docx", TRUE, FALSE, <<>>, 512),
     Entry("D.PDF", ".PDF", TRUE, TRUE, Body, 2048),
     Entry("notes.md", ".md", TRUE, TRUE, Body, 300),
     Entry("old.txt", ".txt", FALSE, FALSE, <<>>, 0)}

\* the listings: up to MaxFiles entries with different names
Listings ==
    {l \in UNION {[1..n -> EntryPool] : n \in 0..MaxFiles} :
        \A i \in 1..Len(l) : \A j \in 1..Len(l) : i # j => l[i] # l[j]}

Folders ==
    {[exists |-> FALSE, entries |-> <<>>]}
    \cup {[exists |-> TRUE, entries |-> l] : l \in Listings}

\* what chunk_text(text) does: it raises, or returns no chunk or some
ChunkOutcomes ==
    {[raised |-> TRUE, error |-> Exception("Exception", <<"Error", "chunking", "documents">>),
      chunks |-> <<>>],
     [raised |-> FALSE, error |-> NoError, chunks |-> <<>>],
     [raised |-> FALSE, error |-> NoError, chunks |-> <<Chunk1, Chunk2>>]}

ServiceFailures ==
    {Exception("ResponseHandlingException", <<"Connection", "refused">>)}

MaxInserts == 2

\* the chunk lists of a direct insert: none, two chunks, and one chunk more
\* than an upsert batch holds
InsertLists ==
    {<<>>, <<Chunk1, Chunk2>>, [i \in 1..(UPSERT_BATCH_SIZE + 1) |-> Chunk1]}

InsertSources == {"a.pdf"}

InitialStores ==
    {NoCollection,
     Store(TRUE, <<>>),
     Store(TRUE, <<PointStruct(0, PointPayload(Chunk2, "old.txt", 0))>>)}

IngestIdle ==
    /\ store = NoCollection
    /\ store_before = NoCollection
    /\ last_call = NoCall
    /\ folder = [exists |-> FALSE, entries |-> <<>>]
    /\ processed_files = <<>>
    /\ failed_files = <<>>
    /\ files = <<>>
    /\ pl_i = 0
    /\ pl_calls = <<>>
    /\ pl_results = <<>>
    /\ pl_runs = 0
    /\ pl_pc = "idle"
    /\ pl_outcome = "none"
    /\ summary = NoSummary
    /\ uuids = 0
    /\ ins_args = NoInsert
    /\ ins_calls = 0
    /\ command = "none"

\* a pipeline is constructed; the store is in some state and the data
\* directory holds some entries
IngestInit ==
    /\ store \in InitialStores
    /\ store_before = store
    /\ last_call = NoCall
    /\ folder \in Folders
    /\ processed_files = <<>>
    /\ failed_files = <<>>
    /\ files = <<>>
    /\ pl_i = 0
    /\ pl_calls = <<>>
    /\ pl_results = <<>>
    /\ pl_runs = 0
    /\ pl_pc = "idle"
    /\ pl_outcome = "none"
    /\ summary = NoSummary
    /\ uuids = 0
    /\ ins_args = NoInsert
    /\ ins_calls = 0
    /\ command = "none"

\* embedding_manager.init_collection(recreate): it returns, or the client
\* fails and the exception is logged and re-raised
InitCollection ==
    /\ pl_pc \in {"idle", "done"}
    /\ \E recreate \in BOOLEAN, fails \in BOOLEAN :
          /\ store' = IF fails THEN store ELSE init_collection(store, recreate)
          /\ last_call' = [op |-> "init_collection", recreate |-> recreate,
                           outcome |-> IF fails THEN "raised" ELSE "returned"]
    /\ store_before' = store
    /\ UNCHANGED <<folder, processed_files, failed_files, files, pl_i, pl_calls,
                   pl_results, pl_runs, pl_pc, pl_outcome, summary, uuids, ins_args,
                   ins_calls, command>>

\* process_folder up to its loop: the directory is missing, or holds no
\* supported file, or the loop starts
ProcessFolderCall ==
    /\ pl_pc \in {"idle", "done"}
    /\ pl_runs < MaxRuns
    /\ pl_runs' = pl_runs + 1
    /\ pl_i' = 0
    /\ pl_calls' = <<>>
    /\ pl_results' = <<>>
    /\ IF ~folder.exists
       THEN /\ files' = <<>>
            /\ pl_pc' = "done"
            /\ pl_outcome' = "raised"
            /\ summary' = NoSummary
       ELSE /\ files' = supported_files(folder)
            /\ IF files' = <<>>
               THEN /\ pl_pc' = "done"
                    /\ pl_outcome' = "returned"
                    /\ summary' = NoFilesResult
               ELSE /\ pl_pc' = "looping"
                    /\ pl_outcome' = "none"
                    /\ summary' = NoSummary
    /\ UNCHANGED <<store, store_before, last_call, folder, processed_files, failed_files,
                   uuids, ins_args, ins_calls, command>>

\* one turn of the loop, self.process_file(file_path); after the last file
\* process_folder returns its summary
ProcessFile ==
    /\ pl_pc = "looping"
    /\ pl_i < Len(files)
    /\ \E chunked \in ChunkOutcomes, failure \in ServiceFailures \cup {NoError},
          fail_at \in 0..1 :
          LET r == process_file(processed_files, failed_files, files[pl_i + 1],
                                chunked, failure, fail_at, uuids, store)
          IN  /\ processed_files' = r.processed_files
              /\ uuids' = r.issued
              /\ failed_files' = r.failed_files
              /\ pl_results' = Append(pl_results, r.result)
              /\ store' = r.store
              /\ IF pl_i + 1 = Len(files)
                 THEN /\ summary' = folder_summary(files, r.processed_files, r.failed_files)
                      /\ pl_pc' = "done"
                      /\ pl_outcome' = "returned"
                 ELSE UNCHANGED <<summary, pl_pc, pl_outcome>>
    /\ pl_i' = pl_i + 1
    /\ pl_calls' = Append(pl_calls, files[pl_i + 1].name)
    /\ store_before' = store
    /\ last_call' = [op |-> "process_file", recreate |-> FALSE, outcome |-> "returned"]
    /\ UNCHANGED <<folder, files, pl_runs, ins_args, ins_calls, command>>

\* a direct call of embedding_manager.insert_chunks(chunks, source_file)
InsertChunks ==
    /\ pl_pc \in {"idle", "done"}
    /\ ins_calls < MaxInserts
    /\ \E chunk_list \in InsertLists, source_file \in InsertSources,
          failure \in ServiceFailures \cup {NoError}, fail_at \in 0..2 :
          LET r == insert_chunks(store, chunk_list, source_file, failure, fail_at, uuids)
          IN  /\ store' = r.store
              /\ uuids' = r.issued
              /\ last_call' = [op |-> "insert_chunks", recreate |-> FALSE,
                               outcome |-> IF r.raised THEN "raised" ELSE "returned"]
              /\ ins_args' = [chunks |-> chunk_list, source_file |-> source_file]
    /\ store_before' = store
    /\ ins_calls' = ins_calls + 1
    /\ UNCHANGED <<folder, processed_files, failed_files, files, pl_i, pl_calls,
                   pl_results, pl_runs, pl_pc, pl_outcome, summary, command>>

\* pipeline = RAGPipeline() and pipeline.process_folder() up to its loop
NewPipelineRun ==
    /\ processed_files' = <<>>
    /\ failed_files' = <<>>
    /\ pl_i' = 0
    /\ pl_calls' = <<>>
    /\ pl_results' = <<>>
    /\ IF ~folder.exists
       THEN /\ files' = <<>>
            /\ pl_pc' = "done"
            /\ pl_outcome' = "raised"
            /\ summary' = NoSummary
       ELSE /\ files' = supported_files(folder)
            /\ IF files' = <<>>
               THEN /\ pl_pc' = "done"
                    /\ pl_outcome' = "returned"
                    /\ summary' = NoFilesResult
               ELSE /\ pl_pc' = "looping"
                    /\ pl_outcome' = "none"
                    /\ summary' = NoSummary

\* the command ends in its except clause before any file is looked at
CommandAborted ==
    /\ files' = <<>>
    /\ pl_i' = 0
    /\ pl_calls' = <<>>
    /\ pl_results' = <<>>
    /\ pl_pc' = "done"
    /\ pl_outcome' = "raised"
    /\ summary' = NoSummary

\* python scripts/pipeline.py: init_collection(), then a new pipeline's
\* process_folder()
PipelineMain ==
    /\ pl_pc \in {"idle", "done"}
    /\ pl_runs < MaxRuns
    /\ pl_runs' = pl_runs + 1
    /\ command' = "pipeline_main"
    /\ store_before' = store
    /\ \E fails \in BOOLEAN :
          IF fails
          THEN /\ store' = store
               /\ last_call' = [op |-> "init_collection", recreate |-> FALSE,
                                outcome |-> "raised"]
               /\ CommandAborted
               /\ UNCHANGED <<processed_files, failed_files>>
          ELSE /\ store' = init_collection(store, FALSE)
               /\ last_call' = [op |-> "init_collection", recreate |-> FALSE,
                                outcome |-> "returned"]
               /\ NewPipelineRun
    /\ UNCHANGED <<folder, uuids, ins_args, ins_calls>>

\* rag_cli.py process [--recreate]: init_collection(recreate=True) only with
\* --recreate, then a new pipeline's process_folder()
CliProcess ==
    /\ pl_pc \in {"idle", "done"}
    /\ pl_runs < MaxRuns
    /\ pl_runs' = pl_runs + 1
    /\ store_before' = store
    /\ \E recreate \in BOOLEAN, fails \in BOOLEAN :
          /\ command' = IF recreate THEN "cli_process_recreate" ELSE "cli_process"
          /\ IF recreate
             THEN IF fails
                  THEN /\ store' = store
                       /\ last_call' = [op |-> "init_collection", recreate |-> TRUE,
                                        outcome |-> "raised"]
                       /\ CommandAborted
                       /\ processed_files' = <<>>
                       /\ failed_files' = <<>>
                  ELSE /\ store' = init_collection(store, TRUE)
                       /\ last_call' = [op |-> "init_collection", recreate |-> TRUE,
                                        outcome |-> "returned"]
                       /\ NewPipelineRun
             ELSE /\ UNCHANGED <<store, last_call>>
                  /\ NewPipelineRun
    /\ UNCHANGED <<folder, uuids, ins_args, ins_calls>>

\* rag_cli.py reset, confirmed: delete_collection()
CliReset ==
    /\ pl_pc \in {"idle", "done"}
    /\ pl_runs < MaxRuns
    /\ pl_runs' = pl_runs + 1
    /\ command' = "cli_reset"
    /\ store_before' = store
    /\ \E fails \in BOOLEAN :
          /\ store' = IF fails THEN store ELSE NoCollection
          /\ last_call' = [op |-> "delete_collection", recreate |-> FALSE,
                           outcome |-> IF fails THEN "raised" ELSE "returned"]
    /\ files' = <<>>
    /\ pl_i' = 0
    /\ pl_calls' = <<>>
    /\ pl_results' = <<>>
    /\ pl_pc' = "done"
    /\ pl_outcome' = "returned"
    /\ summary' = NoSummary
    /\ UNCHANGED <<folder, processed_files, failed_files, uuids, ins_args, ins_calls>>

UnexpectedKeyword ==
    Exception("TypeError", <<"process_file()", "got", "an", "unexpected", "keyword",
                             "argument", "'source_name'">>)

\* the upload page, Process Documents pressed: init_collection(recreate=True)
\* only with the box ticked, then process_file(file_path, source_name=...)
\* for every uploaded file, a call the method's signature rejects
UiUpload ==
    /\ pl_pc \in {"idle", "done"}
    /\ pl_runs < MaxRuns
    /\ pl_runs' = pl_runs + 1
    /\ store_before' = store
    /\ processed_files' = <<>>
    /\ failed_files' = <<>>
    /\ \E recreate \in BOOLEAN, fails \in BOOLEAN :
          /\ command' = IF recreate THEN "ui_upload_recreate" ELSE "ui_upload"
          /\ IF recreate /\ fails
             THEN /\ store' = store
                  /\ last_call' = [op |-> "init_collection", recreate |-> TRUE,
                                   outcome |-> "raised"]
                  /\ CommandAborted
             ELSE /\ IF recreate
                     THEN /\ store' = init_collection(store, TRUE)
                          /\ last_call' = [op |-> "init_collection", recreate |-> TRUE,
                                           outcome |-> "returned"]
                     ELSE UNCHANGED <<store, last_call>>
                  /\ files' = IF folder.exists THEN supported_files(folder) ELSE <<>>
                  /\ pl_i' = Len(files')
                  /\ pl_calls' = [i \in 1..Len(files') |-> files'[i].name]
                  /\ pl_results' = [i \in 1..Len(files') |->
                                       [status |-> "error", file |-> files'[i].name,
                                        error |-> UnexpectedKeyword.words]]
                  /\ pl_pc' = "done"
                  /\ pl_outcome' = "returned"
                  /\ summary' = NoSummary
    /\ UNCHANGED <<folder, uuids, ins_args, ins_calls>>

-----------------------------------------------------------------------------
(* query() step by step.  The steps are cut where the code calls one of its *)
(* collaborators, so that each call and each outcome is a transition.      *)

MaxIndex == 2

T1600 == MkText(1600, 0)       \* 1600 tokens
T3100 == MkText(3000, 300)     \* 3100 tokens

IndexTexts == <<MkText(30, 0), T1600, T3100>>
IndexSources == <<"a.pdf", "b.txt", "a.pdf">>
IndexScores == {25, 85}

PointPool == {Hit(IndexTexts[t], IndexSources[t], s) :
                  t \in 1..Len(IndexTexts), s \in IndexScores}

Indexes == UNION {[1..n -> PointPool] : n \in 0..MaxIndex}

Questions == {MkText(12, 0), MkText(800, 0), MkText(3900, 0)}
TopKs == {None, 1}
Thresholds == {None, 0, 50}
MaxTokensSettings == {100, config_max_tokens, 2000}
\* Config.max_context_tokens as deployed: the default, or a budget below the
\* shortest indexed text
MaxContextSettings == {20, config_max_context_tokens}

RetrievalErrors == {Exception("ResponseHandlingException", <<"Connection", "refused">>)}
\* what create() raises when the service refuses the request or cannot be
\* reached
GenerationErrors ==
    {Exception("APIConnectionError", <<"Connection", "error.">>),
     Exception("BadRequestError",
               <<"This", "model's", "maximum", "context", "length", "is", "4096",
                 "tokens">>)}
InternalErrors ==
    {Exception("TypeError", <<"object", "of", "type", "NoneType", "has", "no", "len()">>)}
Completions == {<<"generated", "answer">>}

NoResult == [question |-> <<>>]

PackIdle ==
    /\ chunks = <<>>
    /\ max_tokens_arg = 0
    /\ selected = <<>>
    /\ pack_pc = "idle"
    /\ chunks_before = <<>>
    /\ pack_prev = <<>>
    /\ pack_calls = 0

QueryIdle ==
    /\ index = <<>>
    /\ self_max_tokens = config_max_tokens
    /\ self_max_context_tokens = config_max_context_tokens
    /\ q_pc = "idle"
    /\ question = <<>>
    /\ top_k = None
    /\ score_threshold = None
    /\ search_args = NoArgs
    /\ searched = "no"
    /\ results = <<>>
    /\ packed = <<>>
    /\ prompt = <<>>
    /\ llm_calls = 0
    /\ llm_request = 0
    /\ llm_silent = FALSE
    /\ outcome = "none"
    /\ result = NoResult
    /\ failed_at = "none"
    /\ caught = NoError

\* the engine is constructed from the configuration (and its max_tokens
\* possibly overridden by the caller) over some collection
QueryInit ==
    /\ index \in Indexes
    /\ self_max_tokens \in MaxTokensSettings
    /\ self_max_context_tokens \in MaxContextSettings
    /\ q_pc = "idle"
    /\ question = <<>>
    /\ top_k = None
    /\ score_threshold = None
    /\ search_args = NoArgs
    /\ searched = "no"
    /\ results = <<>>
    /\ packed = <<>>
    /\ prompt = <<>>
    /\ llm_calls = 0
    /\ llm_request = 0
    /\ llm_silent = FALSE
    /\ outcome = "none"
    /\ result = NoResult
    /\ failed_at = "none"
    /\ caught = NoError

\* the caller invokes query(question, top_k, score_threshold)
QueryCall ==
    /\ q_pc \in {"idle", "Completed", "Failed"}
    /\ \E q \in Questions, k \in TopKs, t \in Thresholds :
          /\ question' = q
          /\ top_k' = k
          /\ score_threshold' = t
    /\ q_pc' = "Received"
    /\ search_args' = NoArgs
    /\ searched' = "no"
    /\ results' = <<>>
    /\ packed' = <<>>
    /\ prompt' = <<>>
    /\ llm_calls' = 0
    /\ llm_request' = 0
    /\ llm_silent' = FALSE
    /\ outcome' = "none"
    /\ result' = NoResult
    /\ failed_at' = "none"
    /\ caught' = NoError
    /\ UNCHANGED <<index, self_max_tokens, self_max_context_tokens>>

\* the exception e leaves the try block of query() at step
Fail(step, e) ==
    LET h == query_except(question, e) IN
    /\ q_pc' = "Failed"
    /\ outcome' = h.outcome
    /\ result' = IF h.outcome = "returned" THEN h.result ELSE NoResult
    /\ failed_at' = step
    /\ caught' = e

\* retrieve_relevant_chunks calls embedding_manager.search_similar
StartRetrieve ==
    /\ q_pc = "Received"
    /\ q_pc' = "Retrieving"
    /\ search_args' = [top_k |-> initial_top_k(top_k),
                       score_threshold |-> passed_threshold(score_threshold)]
    /\ UNCHANGED <<index, self_max_tokens, self_max_context_tokens,
                   question, top_k, score_threshold, searched,
                   results, packed, prompt, llm_calls, llm_request, llm_silent, outcome, result,
                   failed_at, caught>>

\* mutation: query() has no early return, an empty retrieval goes on to the
\* prompt and the generation call
SearchReturnsNoEarlyReturn ==
    /\ q_pc = "Retrieving"
    /\ results' = search_similar(index, search_args.top_k, search_args.score_threshold)
    /\ searched' = "returned"
    /\ q_pc' = IF results' = <<>> THEN "PromptBuilding" ELSE "Packing"
    /\ UNCHANGED <<index, self_max_tokens, self_max_context_tokens,
                   question, top_k, score_threshold, search_args,
                   packed, prompt, llm_calls, llm_request, llm_silent, outcome, result, failed_at, caught>>

\* search_similar returns its hits; with none, retrieve_relevant_chunks
\* returns [] and query() returns the canned answer
SearchReturns ==
    /\ q_pc = "Retrieving"
    /\ LET hits == search_similar(index, search_args.top_k, search_args.score_threshold)
       IN  /\ results' = hits
           /\ searched' = "returned"
           /\ IF hits = <<>>
              THEN /\ q_pc' = "Completed"
                   /\ outcome' = "returned"
                   /\ result' = NoChunksResult(question)
              ELSE /\ q_pc' = "Packing"
                   /\ UNCHANGED <<outcome, result>>
    /\ UNCHANGED <<index, self_max_tokens, self_max_context_tokens,
                   question, top_k, score_threshold, search_args,
                   packed, prompt, llm_calls, llm_request, llm_silent, failed_at, caught>>

\* mutation: the failure is logged and an empty hit list returned
SearchRaisesSwallowed ==
    /\ q_pc = "Retrieving"
    /\ searched' = "raised"
    /\ results' = <<>>
    /\ q_pc' = "Completed"
    /\ outcome' = "returned"
    /\ result' = NoChunksResult(question)
    /\ UNCHANGED <<index, self_max_tokens, self_max_context_tokens,
                   question, top_k, score_threshold, search_args,
                   packed, prompt, llm_calls, llm_request, llm_silent, failed_at, caught>>

\* the embedding model or the index fails: search_similar and
\* retrieve_relevant_chunks log and re-raise, query() catches
SearchRaises ==
    /\ q_pc = "Retrieving"
    /\ \E e \in RetrievalErrors : Fail("retrieval", e)
    /\ searched' = "raised"
    /\ UNCHANGED <<index, self_max_tokens, self_max_context_tokens,
                   question, top_k, score_threshold, search_args,
                   results, packed, prompt, llm_calls, llm_request, llm_silent>>

\* mutation: query() has no early return for an empty packed context
PackContextNoEarlyReturn ==
    /\ q_pc = "Packing"
    /\ packed' = truncate_chunks_to_fit_context(results, self_max_context_tokens)
    /\ q_pc' = "PromptBuilding"
    /\ UNCHANGED <<index, self_max_tokens, self_max_context_tokens,
                   question, top_k, score_threshold, search_args,
                   searched, results, prompt, llm_calls, llm_request, llm_silent, outcome, result,
                   failed_at, caught>>

\* mutation: a packer that keeps the top hit when nothing fits
PackContextKeepsTopHit ==
    /\ q_pc = "Packing"
    /\ LET cs == truncate_chunks_to_fit_context(results, self_max_context_tokens)
       IN  packed' = IF cs = <<>> THEN <<results[1]>> ELSE cs
    /\ q_pc' = "PromptBuilding"
    /\ UNCHANGED <<index, self_max_tokens, self_max_context_tokens,
                   question, top_k, score_threshold, search_args,
                   searched, results, prompt, llm_calls, llm_request, llm_silent, outcome, result,
                   failed_at, caught>>

\* retrieve_relevant_chunks packs the hits; query() returns the canned
\* answer when nothing was packed
PackContext ==
    /\ q_pc = "Packing"
    /\ LET cs == truncate_chunks_to_fit_context(results, self_max_context_tokens)
       IN  /\ packed' = cs
           /\ IF cs = <<>>
              THEN /\ q_pc' = "Completed"
                   /\ outcome' = "returned"
                   /\ result' = NoChunksResult(question)
              ELSE /\ q_pc' = "PromptBuilding"
                   /\ UNCHANGED <<outcome, result>>
    /\ UNCHANGED <<index, self_max_tokens, self_max_context_tokens,
                   question, top_k, score_threshold, search_args,
                   searched, results, prompt, llm_calls, llm_request, llm_silent, failed_at, caught>>

\* create_context_prompt, then ask_llm up to the call: either the budget
\* check raises ValueError or the request is sent with model, messages,
\* temperature and max_tokens, to a service that will answer it or not
BuildPromptAndAsk ==
    /\ q_pc = "PromptBuilding"
    /\ LET p == create_context_prompt(packed, question)
       IN  /\ prompt' = p
           /\ IF budget_ok(p, self_max_tokens)
              THEN /\ q_pc' = "Generating"
                   /\ llm_calls' = llm_calls + 1
                   /\ llm_request' = adjusted_max_tokens(p, self_max_tokens)
                   /\ llm_silent' \in BOOLEAN
                   /\ UNCHANGED <<outcome, result, failed_at, caught>>
              ELSE /\ Fail("budget", PromptTooLong)
                   /\ UNCHANGED <<llm_calls, llm_request, llm_silent>>
    /\ UNCHANGED <<index, self_max_tokens, self_max_context_tokens,
                   question, top_k, score_threshold, search_args,
                   searched, results, packed>>

\* an exception nobody planned for in packing or prompt building (a payload
\* whose text is not a string, say)
UnexpectedError ==
    /\ q_pc \in {"Packing", "PromptBuilding"}
    /\ \E e \in InternalErrors :
          Fail(IF q_pc = "Packing" THEN "packing" ELSE "prompt", e)
    /\ UNCHANGED <<index, self_max_tokens, self_max_context_tokens,
                   question, top_k, score_threshold, search_args,
                   searched, results, packed, prompt, llm_calls, llm_request, llm_silent>>

\* the completion arrives and create() returns
GenerateReturns ==
    /\ q_pc = "Generating"
    /\ ~llm_silent
    /\ \E content \in Completions :
          result' = SuccessResult(question, content, packed, prompt,
                                  self_max_context_tokens)
    /\ q_pc' = "Completed"
    /\ outcome' = "returned"
    /\ UNCHANGED <<index, self_max_tokens, self_max_context_tokens,
                   question, top_k, score_threshold, search_args,
                   searched, results, packed, prompt, llm_calls, llm_request, llm_silent, failed_at, caught>>

\* mutation: a failed call is retried once
GenerateRaisesRetry ==
    /\ q_pc = "Generating"
    /\ ~llm_silent
    /\ IF llm_calls < 2
       THEN /\ llm_calls' = llm_calls + 1
            /\ UNCHANGED <<q_pc, outcome, result, failed_at, caught>>
       ELSE /\ \E e \in GenerationErrors : Fail("generation", e)
            /\ UNCHANGED llm_calls
    /\ UNCHANGED <<index, self_max_tokens, self_max_context_tokens,
                   question, top_k, score_threshold, search_args,
                   searched, results, packed, prompt, llm_request, llm_silent>>

\* the service answers with an error or the connection breaks: create()
\* raises, ask_llm logs and re-raises, query() catches
GenerateRaises ==
    /\ q_pc = "Generating"
    /\ ~llm_silent
    /\ \E e \in GenerationErrors : Fail("generation", e)
    /\ UNCHANGED <<index, self_max_tokens, self_max_context_tokens,
                   question, top_k, score_threshold, search_args,
                   searched, results, packed, prompt, llm_calls, llm_request, llm_silent>>

InitQuery == QueryInit /\ PackIdle /\ ChunkIdle /\ IngestIdle

NextQuery ==
    \/ (QueryCall /\ UNCHANGED <<pack_vars, chunk_vars, ingest_vars>>)
    \/ (StartRetrieve /\ UNCHANGED <<pack_vars, chunk_vars, ingest_vars>>)
    \/ (SearchReturns /\ UNCHANGED <<pack_vars, chunk_vars, ingest_vars>>)
    \/ (SearchRaises /\ UNCHANGED <<pack_vars, chunk_vars, ingest_vars>>)
    \/ (PackContext /\ UNCHANGED <<pack_vars, chunk_vars, ingest_vars>>)
    \/ (BuildPromptAndAsk /\ UNCHANGED <<pack_vars, chunk_vars, ingest_vars>>)
    \/ (UnexpectedError /\ UNCHANGED <<pack_vars, chunk_vars, ingest_vars>>)
    \/ (GenerateReturns /\ UNCHANGED <<pack_vars, chunk_vars, ingest_vars>>)
    \/ (GenerateRaises /\ UNCHANGED <<pack_vars, chunk_vars, ingest_vars>>)

SpecQuery == InitQuery /\ [][NextQuery]_vars

\* what query() and the services that answer do on their own: the code
\* runs its next step, and a service that answers does so in the end
QueryProgress ==
    \/ (StartRetrieve /\ UNCHANGED <<pack_vars, chunk_vars, ingest_vars>>)
    \/ (SearchReturns /\ UNCHANGED <<pack_vars, chunk_vars, ingest_vars>>)
    \/ (SearchRaises /\ UNCHANGED <<pack_vars, chunk_vars, ingest_vars>>)
    \/ (PackContext /\ UNCHANGED <<pack_vars, chunk_vars, ingest_vars>>)
    \/ (BuildPromptAndAsk /\ UNCHANGED <<pack_vars, chunk_vars, ingest_vars>>)
    \/ (GenerateReturns /\ UNCHANGED <<pack_vars, chunk_vars, ingest_vars>>)
    \/ (GenerateRaises /\ UNCHANGED <<pack_vars, chunk_vars, ingest_vars>>)

\* the collections of the liveness check: empty, or one short text
LiveIndexes ==
    {<<>>, <<Hit(IndexTexts[1], IndexSources[1], 85)>>}

InitQueryLive ==
    /\ InitQuery
    /\ index \in LiveIndexes
    /\ self_max_tokens = config_max_tokens

SpecQueryLive == InitQueryLive /\ [][NextQuery]_vars /\ WF_vars(QueryProgress)

-----------------------------------------------------------------------------
(* The packer applied to bounded inputs *)

MaxHits == 2
MaxPackCalls == 2

T30 == MkText(30, 0)        \* 30 tokens
T80 == MkText(78, 6)        \* 80 tokens
T120 == MkText(120, 0)      \* 120 tokens
T160 == MkText(150, 30)     \* 160 tokens
TX == RConcat(MkText(440, 0), Chars(X, 1))   \* rejected by the encoder: 441 \div 4 = 110

PoolTexts == <<T30, T80, T120, T160, TX>>
PoolSources == <<"a.pdf", "b.txt", "a.pdf", "c.docx", "b.txt">>
PoolScores == {80, 85}

HitPool == {Hit(PoolTexts[t], PoolSources[t], s) :
                t \in 1..Len(PoolTexts), s \in PoolScores}

\* the end-to-end example of the specification: five hits of 80 tokens
ExampleScores == <<91, 85, 80, 75, 72>>
ExampleSources == <<"a.pdf", "b.txt", "a.pdf", "c.docx", "b.txt">>
ExampleHits == [i \in 1..5 |-> Hit(T80, ExampleSources[i], ExampleScores[i])]

CandidateLists ==
    UNION {[1..n -> HitPool] : n \in 0..MaxHits} \cup {ExampleHits}

Budgets == {0, 60, 100, 200, 250}

PackInit ==
    /\ chunks \in CandidateLists
    /\ max_tokens_arg \in Budgets
    /\ selected = <<>>
    /\ pack_pc = "ready"
    /\ chunks_before = <<>>
    /\ pack_prev = <<>>
    /\ pack_calls = 0

\* one call of truncate_chunks_to_fit_context(chunks, max_tokens) on the
\* engine, the first or a later one on the same list
Pack ==
    /\ pack_pc \in {"ready", "done"}
    /\ pack_calls < MaxPackCalls
    /\ selected' = truncate_chunks_to_fit_context(chunks, max_tokens_arg)
    /\ chunks' = InputAfterPack(chunks, max_tokens_arg)
    /\ chunks_before' = chunks
    /\ pack_prev' = selected
    /\ pack_calls' = pack_calls + 1
    /\ pack_pc' = "done"
    /\ UNCHANGED max_tokens_arg
    /\ UNCHANGED <<query_vars, chunk_vars, ingest_vars>>

InitPack == PackInit /\ QueryIdle /\ ChunkIdle /\ IngestIdle
NextPack == Pack
SpecPack == InitPack /\ [][NextPack]_vars

-----------------------------------------------------------------------------
(* Claims about the packer *)

TokenCounts(cs) == [i \in 1..Len(cs) |-> count_tokens(cs[i]["text"])]
TotalTokens(cs) == SumSeq(TokenCounts(cs))

\* C1: the token counts of the returned hits, counted on the returned text
\* (a truncated hit's shortened text with its "..." marker), sum to at most
\* max_tokens.
C1_PackingInvariant ==
    pack_pc = "done" => TotalTokens(selected) <= max_tokens_arg

Descending(cs) ==
    \A i \in 1..(Len(cs) - 1) : cs[i]["score"] >= cs[i + 1]["score"]

\* out is the input hit c, unchanged or as a truncated copy
FromHit(out, c) ==
    \/ out = c
    \/ /\ is_truncated(out)
       /\ \A k \in DOMAIN c \ {"text"} : out[k] = c[k]

\* C2: the output is in descending score order and is a prefix of the
\* score-sorted input, so no hit ranked below an excluded hit appears in it.
C2_OrderedPrefix ==
    pack_pc = "done" =>
        LET ranked == sorted_by_score(chunks) IN
        /\ Descending(selected)
        /\ Len(selected) <= Len(ranked)
        /\ \A i \in 1..Len(selected) : FromHit(selected[i], ranked[i])
        /\ \A i \in 1..Len(ranked) : \A j \in 1..Len(chunks) :
               (i > Len(selected) /\ j <= Len(selected))
                   => ranked[j]["score"] >= ranked[i]["score"]

\* a candidate list is cut short while a lower-ranked hit was available
C2_Witness ==
    /\ pack_pc = "done"
    /\ Len(selected) >= 1
    /\ Len(selected) < Len(chunks)
    /\ chunks[1]["score"] < chunks[Len(chunks)]["score"]

IsExample == chunks = ExampleHits /\ max_tokens_arg = 200

\* C3 as stated: the example returns three members, hits 1 and 2 in full and
\* hit 3 truncated to 40 tokens, 200 tokens in all.
C3_ExampleAsStated ==
    (pack_pc = "done" /\ IsExample) =>
        /\ Len(selected) = 3
        /\ selected[1] = ExampleHits[1]
        /\ selected[2] = ExampleHits[2]
        /\ is_truncated(selected[3])
        /\ TotalTokens(selected) = 200

\* C3 amended: the example returns two members, hits 1 and 2 in full (160
\* tokens); hit 3 has 80 tokens, not more than 100, so it is not truncated
\* and the loop stops.
C3_ExampleTwoFull ==
    (pack_pc = "done" /\ IsExample) =>
        /\ selected = <<ExampleHits[1], ExampleHits[2]>>
        /\ TotalTokens(selected) = 160
        /\ \A i \in 1..Len(selected) : ~is_truncated(selected[i])

C3_Witness == pack_pc = "done" /\ IsExample /\ Len(selected) = 2

\* C17: the output holds at most one hit marked truncated, that hit is the
\* last member, and every member before it is an input hit with its text
\* unchanged; after a truncation no further hit is taken.
C17_SingleTruncatedLast ==
    pack_pc = "done" =>
        LET ranked == sorted_by_score(chunks)
            marked == {i \in 1..Len(selected) : is_truncated(selected[i])}
        IN  /\ Cardinality(marked) <= 1
            /\ \A i \in marked : i = Len(selected)
            /\ \A i \in 1..Len(selected) :
                   i \notin marked =>
                       /\ selected[i] \in {chunks[j] : j \in 1..Len(chunks)}
                       /\ selected[i] = ranked[i]
            /\ \A i \in marked :
                   /\ selected[i]["text"] # ranked[i]["text"]
                   /\ selected[i]["source"] = ranked[i]["source"]

\* a full hit followed by a truncated one
C17_Witness ==
    /\ pack_pc = "done"
    /\ Len(selected) = 2
    /\ ~is_truncated(selected[1])
    /\ is_truncated(selected[2])

\* the tokens of the first k hits of cs
PrefixTokens(cs, k) == SumSeq(TokenCounts(SubSeq(cs, 1, k)))

\* the positions in cs at which the running total would pass the budget
Overflowing(cs, budget) == {k \in 1..Len(cs) : PrefixTokens(cs, k) > budget}

\* C18: the first hit in score order that does not fit the remaining budget
\* is accepted in truncated form if and only if it has more than 100 tokens
\* and more than 50 tokens of budget remain; otherwise it is dropped; in both
\* cases every later hit is dropped, also one that would fit.
C18_FirstNonFittingHit ==
    pack_pc = "done" =>
        LET ranked == sorted_by_score(chunks)
            over == Overflowing(ranked, max_tokens_arg)
        IN  IF over = {} THEN selected = ranked
            ELSE LET k == CHOOSE m \in over : \A n \in over : m <= n
                     remaining == max_tokens_arg - PrefixTokens(ranked, k - 1)
                     worth == /\ count_tokens(ranked[k]["text"]) > 100
                              /\ remaining > 50
                 IN  /\ SubSeq(selected, 1, k - 1) = SubSeq(ranked, 1, k - 1)
                     /\ worth => (Len(selected) = k /\ is_truncated(selected[k]))
                     /\ ~worth => Len(selected) = k - 1

\* the best hit is dropped and with it a hit that fits the budget
C18_Witness ==
    /\ pack_pc = "done"
    /\ selected = <<>>
    /\ \E j \in 1..Len(chunks) : count_tokens(chunks[j]["text"]) <= max_tokens_arg

\* the lists that hold the same hits as cs in some order
Reorderings(cs) ==
    {[i \in 1..Len(cs) |-> cs[f[i]]] : f \in Permutations(1..Len(cs))}

DistinctScores(cs) ==
    \A i, j \in 1..Len(cs) : i # j => cs[i]["score"] # cs[j]["score"]

\* C22 as stated: the packer sorts by score before packing, so for any two
\* orderings of the same hits truncate_chunks_to_fit_context returns the same
\* sequence of hits.
C22_OrderIndependent ==
    pack_pc = "done" =>
        \A cs \in Reorderings(chunks) :
            truncate_chunks_to_fit_context(cs, max_tokens_arg) = selected

\* C22 as the code has it: the result is the same for every ordering of hits
\* whose scores are pairwise distinct; hits of equal score are packed in the
\* order they have in the input.
C22_OrderIndependentDistinctScores ==
    (pack_pc = "done" /\ DistinctScores(chunks)) =>
        \A cs \in Reorderings(chunks) :
            truncate_chunks_to_fit_context(cs, max_tokens_arg) = selected

\* two hits given in ascending order of score, the better one packed first
C22_Witness ==
    /\ pack_pc = "done"
    /\ Len(chunks) = 2
    /\ chunks[1]["score"] < chunks[2]["score"]
    /\ selected # <<>>
    /\ selected[1]["source"] = chunks[2]["source"]
    /\ chunks[1]["text"] # chunks[2]["text"]

-----------------------------------------------------------------------------
(* Claims about query() *)

Ended == q_pc \in {"Completed", "Failed"}

HasError == "error" \in DOMAIN result

IsNoInfoResult ==
    /\ ~HasError
    /\ result["answer"] = NoInfoAnswer(question)
    /\ result["sources"] = <<>>
    /\ result["chunks_used"] = 0

\* C4: when the search returns zero hits above the threshold, query() returns
\* a Completed result without 'error', with the canned answer, no sources and
\* chunks_used = 0, and the generation service is not called.
C4_ZeroHits ==
    (searched = "returned" /\ results = <<>> /\ q_pc # "Retrieving") =>
        /\ q_pc = "Completed"
        /\ outcome = "returned"
        /\ IsNoInfoResult
        /\ llm_calls = 0

\* the collection holds points, none of them above the threshold
C4_Witness ==
    /\ q_pc = "Completed"
    /\ searched = "returned"
    /\ results = <<>>
    /\ index # <<>>

\* C5: query() never raises; every failure ends in a returned result with the
\* error description in 'error' and in 'answer', no sources, chunks_used = 0.
C5_NeverRaises ==
    /\ outcome # "raised"
    /\ q_pc = "Failed" =>
        /\ outcome = "returned"
        /\ HasError
        /\ result["error"] # <<>>
        /\ result["answer"] = ErrorAnswer(result["error"])
        /\ result["sources"] = <<>>
        /\ result["chunks_used"] = 0
    /\ (Ended /\ failed_at # "none") => q_pc = "Failed"

C5_Witness ==
    /\ q_pc = "Failed"
    /\ failed_at = "generation"
    /\ outcome = "returned"

ResponseAllowance(p) == config_max_total_tokens - count_tokens(p) - SAFETY_RESERVE

\* C7: when max_total_tokens minus the prompt's tokens minus the 100-token
\* reserve is below 100, the query is Failed and the generation service is
\* not called.
C7_BudgetCheck ==
    (prompt # <<>> /\ ResponseAllowance(prompt) < MIN_RESPONSE_TOKENS) =>
        /\ q_pc = "Failed"
        /\ HasError
        /\ llm_calls = 0

\* the prompt would fit the window, the reserve makes the check fail
C7_Witness ==
    /\ q_pc = "Failed"
    /\ failed_at = "budget"
    /\ ResponseAllowance(prompt) < MIN_RESPONSE_TOKENS
    /\ ResponseAllowance(prompt) + SAFETY_RESERVE >= MIN_RESPONSE_TOKENS

\* C8: a failure of the embedding model or the index during the search is not
\* turned into an empty hit list: the query is Failed with an 'error' field,
\* not Completed with the canned answer.
C8_RetrievalFailureSurfaces ==
    searched = "raised" =>
        /\ q_pc = "Failed"
        /\ failed_at = "retrieval"
        /\ HasError
        /\ result["answer"]["template"] # NoInfoAnswer(question)["template"]
        /\ llm_calls = 0

C8_Witness == searched = "raised" /\ q_pc = "Failed" /\ index # <<>>

\* the best hit is larger than the context budget and too small to truncate
TopHitUnpackable ==
    /\ searched = "returned"
    /\ results # <<>>
    /\ count_tokens(results[1]["text"]) > self_max_context_tokens
    /\ count_tokens(results[1]["text"]) <= TRUNCATE_MIN_CHUNK_TOKENS

\* the allowance ask_llm would compute for the prompt of an empty context
EmptyContextAllowance == ResponseAllowance(create_context_prompt(<<>>, question))

IsBudgetExceeded ==
    /\ q_pc = "Failed"
    /\ HasError
    /\ result["error"] = ContextTooLongMsg

InitChunk == ChunkInit /\ PackIdle /\ QueryIdle /\ IngestIdle

NextChunk ==
    \/ (ChunkDocuments /\ UNCHANGED <<pack_vars, query_vars, ingest_vars>>)
    \/ (ChunkText /\ UNCHANGED <<pack_vars, query_vars, ingest_vars>>)
    \/ (NewChunker /\ UNCHANGED <<pack_vars, query_vars, ingest_vars>>)

SpecChunk == InitChunk /\ [][NextChunk]_vars

AfterGeneration == q_pc = "Completed" /\ llm_calls = 1

TruncatedHits == {i \in 1..Len(packed) : is_truncated(packed[i])}

\* C15 as stated: in every Completed result produced after a generation
\* call, 'sources' lists each source at most once, chunks_used is the number
\* of packed hits and truncated_chunks the number of packed hits marked
\* truncated.
C15_DistinctSources ==
    AfterGeneration =>
        /\ \A i \in 1..Len(result["sources"]) : \A j \in 1..Len(result["sources"]) :
               i # j => result["sources"][i] # result["sources"][j]
        /\ result["chunks_used"] = Len(packed)
        /\ result["context_management"]["truncated_chunks"] = Cardinality(TruncatedHits)

\* C15 amended: 'sources' has one entry per packed hit, the hit's source, in
\* packing order, so a source repeats when several packed hits come from
\* it; chunks_used is the number of packed hits and truncated_chunks the
\* number of packed hits marked truncated.
C15_SourcePerHit ==
    AfterGeneration =>
        /\ Len(result["sources"]) = Len(packed)
        /\ \A i \in 1..Len(packed) : result["sources"][i] = packed[i]["source"]
        /\ result["chunks_used"] = Len(packed)
        /\ result["context_management"]["truncated_chunks"] = Cardinality(TruncatedHits)

\* two packed hits of one source, the second truncated
C15_Witness ==
    /\ AfterGeneration
    /\ Len(packed) = 2
    /\ result["sources"][1] = result["sources"][2]
    /\ result["context_management"]["truncated_chunks"] = 1

\* C20 as stated: a Failed result carries the "Context too long for the
\* model" message exactly when the failure was the response-allowance check
\* of ask_llm; a retrieval or generation failure never carries it.
C20_BudgetMessageOnlyForBudget ==
    (q_pc = "Failed" /\ HasError) =>
        (result["error"] = ContextTooLongMsg <=> failed_at = "budget")

\* C20 as the code has it: a Failed result carries the "Context too long for
\* the model" message exactly when the message of the caught exception
\* mentions "context length" or "tokens", and the exception's own message
\* otherwise.  The allowance check always does; so does a generation failure
\* whose message mentions them.
C20_BudgetMessageByMention ==
    (q_pc = "Failed" /\ HasError) =>
        /\ result["error"] = ContextTooLongMsg <=> MentionsContext(caught.words)
        /\ ~MentionsContext(caught.words) => result["error"] = caught.words
        /\ failed_at = "budget" => result["error"] = ContextTooLongMsg

\* the generation service refused the request with its own context-length
\* error and the result carries the budget message
C20_Witness ==
    /\ q_pc = "Failed"
    /\ HasError
    /\ failed_at = "generation"
    /\ caught.type = "BadRequestError"
    /\ result["error"] = ContextTooLongMsg

\* the search returned hits and query() has got the packed list back
HitsPacked ==
    /\ searched = "returned"
    /\ results # <<>>
    /\ q_pc \in {"PromptBuilding", "Generating", "Completed"}

C27_SentMaxTokens ==
    /\ llm_calls >= 1 =>
           /\ MIN_RESPONSE_TOKENS <= llm_request
           /\ llm_request <= self_max_tokens
           /\ count_tokens(prompt) + llm_request + SAFETY_RESERVE <= config_max_total_tokens
    /\ (prompt # <<>> /\ ResponseAllowance(prompt) >= MIN_RESPONSE_TOKENS) =>
           /\ failed_at # "budget"
           /\ llm_calls = 1

\* the window, not the configured max_tokens, set the value that was sent
C27_Witness ==
    /\ llm_calls = 1
    /\ llm_request < self_max_tokens
    /\ llm_request = ResponseAllowance(prompt)

\* C28: query(question, top_k, score_threshold) searches with exactly the
\* score_threshold the caller passed, 0.0 included, and with the configured
\* threshold only when none is passed; the number of hits used never exceeds
\* min(top_k, 5).
C28_ThresholdAsPassed ==
    q_pc \notin {"idle", "Received"} =>
        /\ search_args.score_threshold =
               IF score_threshold = None THEN config_similarity_threshold
               ELSE score_threshold
        /\ top_k # None =>
               /\ Len(results) <= Min(top_k, 5)
               /\ Len(packed) <= Min(top_k, 5)

-----------------------------------------------------------------------------
(* The ingestion specification *)

InitIngest == IngestInit /\ PackIdle /\ QueryIdle /\ ChunkIdle

NextIngest ==
    \/ (InitCollection /\ UNCHANGED <<pack_vars, query_vars, chunk_vars>>)
    \/ (ProcessFolderCall /\ UNCHANGED <<pack_vars, query_vars, chunk_vars>>)
    \/ (ProcessFile /\ UNCHANGED <<pack_vars, query_vars, chunk_vars>>)

SpecIngest == InitIngest /\ [][NextIngest]_vars

\* the embedding manager on its own, no pipeline at work
InitInsert == InitIngest /\ ~folder.exists

NextInsert ==
    \/ (InitCollection /\ UNCHANGED <<pack_vars, query_vars, chunk_vars>>)
    \/ (InsertChunks /\ UNCHANGED <<pack_vars, query_vars, chunk_vars>>)

SpecInsert == InitInsert /\ [][NextInsert]_vars

\* the entry points run one after the other on one vector store
InitEntry == InitIngest

NextEntry ==
    \/ (PipelineMain /\ UNCHANGED <<pack_vars, query_vars, chunk_vars>>)
    \/ (CliProcess /\ UNCHANGED <<pack_vars, query_vars, chunk_vars>>)
    \/ (CliReset /\ UNCHANGED <<pack_vars, query_vars, chunk_vars>>)
    \/ (UiUpload /\ UNCHANGED <<pack_vars, query_vars, chunk_vars>>)
    \/ (ProcessFile /\ UNCHANGED <<pack_vars, query_vars, chunk_vars>>)

SpecEntry == InitEntry /\ [][NextEntry]_vars

-----------------------------------------------------------------------------
(* Claims about ingestion *)

\* C13: after init_collection(recreate) returns, the collection exists; if
\* recreate is true or the collection was absent it holds zero points; if
\* recreate is false and the collection existed its points are unchanged, so
\* repeated init_collection(False) calls change nothing.
C13_InitCollection ==
    (last_call.op = "init_collection" /\ last_call.outcome = "returned") =>
        /\ store.exists
        /\ (last_call.recreate \/ ~store_before.exists) => store.points = <<>>
        /\ (~last_call.recreate /\ store_before.exists) => store = store_before

\* init_collection(False) returned on a collection that holds points
C13_Witness ==
    /\ last_call = [op |-> "init_collection", recreate |-> FALSE, outcome |-> "returned"]
    /\ store_before.exists
    /\ store.points # <<>>

\* the supported files of the directory as paths
SupportedPaths ==
    [i \in 1..Len(supported_files(folder)) |-> supported_files(folder)[i].name]

\* C14: process_folder calls process_file exactly once for every supported
\* file of the folder, whatever earlier files did, and returns a summary in
\* which total_files is the number of supported files and every file that
\* failed is listed in 'failed' with its error.
C14_FolderSummary ==
    (pl_pc = "done" /\ pl_outcome = "returned") =>
        /\ pl_calls = SupportedPaths
        /\ "total_files" \in DOMAIN summary
        /\ summary["total_files"] = Len(SupportedPaths)
        /\ \A i \in 1..Len(pl_results) :
               pl_results[i]["status"] = "error" =>
                   \E k \in 1..Len(summary["failed"]) :
                       /\ summary["failed"][k]["file"] = pl_calls[i]
                       /\ summary["failed"][k]["error"] = pl_results[i]["error"]
                       /\ summary["failed"][k]["error"] # <<>>

\* C24: an insert_chunks call of n chunks that returns adds exactly n points
\* to the collection, one per chunk and in their order, each with an id no
\* other point has; the points that were there stay, so inserting the same
\* chunks of the same source again adds n more; with an empty list nothing
\* is written.
C24_InsertAddsPoints ==
    (last_call.op = "insert_chunks" /\ last_call.outcome = "returned") =>
        LET n == Len(ins_args.chunks)
            before == store_before.points
            after == store.points
        IN  /\ Len(after) = Len(before) + n
            /\ SubSeq(after, 1, Len(before)) = before
            /\ \A i \in 1..n :
                   /\ after[Len(before) + i].payload =
                          PointPayload(ins_args.chunks[i], ins_args.source_file, i - 1)
                   /\ \A j \in 1..Len(after) :
                          j # Len(before) + i => after[j].id # after[Len(before) + i].id
            /\ n = 0 => store = store_before

\* the same list, longer than one upsert batch, has been inserted twice
C24_Witness ==
    /\ last_call.op = "insert_chunks"
    /\ last_call.outcome = "returned"
    /\ Len(ins_args.chunks) = UPSERT_BATCH_SIZE + 1
    /\ Len(store.points) = 2 * Len(ins_args.chunks)
    /\ \A i \in 1..Len(ins_args.chunks) :
           /\ store.points[i].payload = store.points[Len(ins_args.chunks) + i].payload
           /\ store.points[i].id # store.points[Len(ins_args.chunks) + i].id

\* the results of this run's process_file calls that have the given status
RunResults(status) ==
    SelectSeq(pl_results, LAMBDA r : r["status"] = status)

\* C29: whatever calls were made before on the pipeline, the summary that
\* process_folder returns has processed_files + failed_files <= total_files
\* and a success_rate between 0 and 1, and counts only the files of that
\* call.
C29_SummaryOfThisCall ==
    (pl_pc = "done" /\ pl_outcome = "returned" /\ "total_files" \in DOMAIN summary) =>
        /\ summary["processed_files"] + summary["failed_files"] <= summary["total_files"]
        /\ 0 <= summary["success_rate"]
        /\ summary["success_rate"] <= 100
        /\ summary["processed"] = RunResults("success")
        /\ summary["failed"] = RunResults("error")

\* C30: in every entry point that ingests (pipeline main, the CLI 'process'
\* command with or without --recreate, the upload page, also after a CLI
\* 'reset') init_collection has made sure the collection exists before the
\* first insert_chunks of the run, so no insert meets an absent collection.
C30_CollectionEnsured ==
    \A i \in 1..Len(pl_results) :
        pl_results[i]["status"] = "error" =>
            pl_results[i]["error"] # CollectionNotFound.words

-----------------------------------------------------------------------------
(* Claims about the chunker *)

\* C9: every returned chunk has at least 10 white-space delimited words
\* after cleaning; shorter chunks are not in the output.
C9_MinimumWords ==
    ck_pc = "done" =>
        \A j \in 1..Len(ck_chunks) :
            /\ RLen(split(ck_chunks[j].page_content)) >= 10
            /\ \A i \in 1..Len(ck_chunks[j].page_content) :
                   \A k \in 1..Len(ck_chunks[j].page_content[i].v) :
                       ck_chunks[j].page_content[i].v[k] # STAR

\* the documents as the splitter saw them
SplitterInput ==
    IF ck_call = "chunk_text"
    THEN <<Document([i \in 1..Len(ck_input[1].page_content) |->
                        clean_text(ck_input[1].page_content[i])], 1)>>
    ELSE ck_input

\* a chunk that had 10 words before cleaning was dropped, another was kept
C9_Witness ==
    /\ ck_pc = "done"
    /\ Len(ck_chunks) >= 1
    /\ \E c \in {split_documents(SplitterInput, chunker)[j] :
                    j \in 1..Len(split_documents(SplitterInput, chunker))} :
          /\ word_length_function(c.page_content) >= 10
          /\ word_length_function(clean_text(c.page_content)) < 10

\* the last k elements
RSuffix(r, k) ==
    LET RECURSIVE Drop(_, _)
        Drop(t, n) ==
            IF n <= 0 \/ t = <<>> THEN t
            ELSE IF t[1].n <= n THEN Drop(Tail(t), n - t[1].n)
            ELSE <<Run(t[1].v, t[1].n - n)>> \o Tail(t)
    IN  Drop(r, RLen(r) - k)

\* a non-empty trailing word sequence of a is a leading word sequence of b
SharesWords(a, b) ==
    LET wa == split(a.page_content)
        wb == split(b.page_content)
    IN  \E k \in 1..Min(RLen(wa), RLen(wb)) : RSuffix(wa, k) = RPrefix(wb, k)

DefaultChunker ==
    /\ ck_args.chunk_size = None
    /\ ck_args.chunk_overlap \in {None, config_chunk_overlap}

C19_ZeroOverlap ==
    (ck_pc = "done" /\ ck_args.chunk_overlap = 0) =>
        /\ chunker.chunk_overlap = 0
        /\ \A j \in 1..(Len(ck_chunks) - 1) :
               ck_chunks[j + 1].metadata.page = ck_chunks[j].metadata.page =>
                   ck_chunks[j + 1].parts[1] > ck_chunks[j].parts[Len(ck_chunks[j].parts)]

C26_CleanTextNormalised ==
    ck_pc = "done" =>
        \A j \in 1..Len(ck_chunks) :
            LET text == ck_chunks[j].page_content IN
            /\ \A i \in 1..Len(text) :
                   /\ text[i].v # <<>>
                   /\ \A k \in 1..Len(text[i].v) : text[i].v[k] # STAR
            /\ clean_text(text) = text

====
